---- MODULE Spec2Model ----
(***************************************************************************)
(* Model of the travl crate: AVL nodes (src/src/core.rs) and the map that  *)
(* indexes them (src/src/map.rs).                                          *)
(*                                                                         *)
(* References (`Option<&'a Self>`, `Option<&'a K>`) are modelled as node   *)
(* keys, with None == 0.  u64 arithmetic keeps a width: the model uses     *)
(* WordBits bits instead of 64, so that the saturating additions of        *)
(* balance_factor actually saturate.                                       *)
(***************************************************************************)
EXTENDS Integers, FiniteSets, Sequences, TLC

VARIABLES store, lent, map, call, ret

vars == <<store, lent, map, call, ret>>

\* ---------------------------------------------------------------- bounds
WordBits == 3
MaxNodes == 3
MaxKeys == 4
MaxValue == 3
MaxNodeValue == 1

\* ------------------------------------------------------------ primitives
None == 0

\* u64::MAX at the model's width
U64_MAX == 2^WordBits - 1

\* Heights a tree can have: a node of height h heads a chain of h + 1 nodes,
\* so no node has height u64::MAX.
Heights == 0..(U64_MAX - 1)

NodeIds == 1..MaxNodes
Keys == 1..MaxKeys
Values == 1..MaxValue
NodeValues == 1..MaxNodeValue

BalanceFactor == {"Balanced", "LeftHeavy", "RightHeavy", "TooLeftHeavy", "TooRightHeavy"}

SearchType == {"Equality", "Nearest", "NearestToBottom", "NearestToTop"}

PropFns == {"identity", "half"}
OrdFns == {"cmp", "reverse"}

\* u64::wrapping_add at the model's width
wrapping_add(a, b) == (a + b) % (U64_MAX + 1)

\* u64::saturating_add at the model's width
saturating_add(a, b) == IF a + b > U64_MAX THEN U64_MAX ELSE a + b

\* Ordering::cmp on two integers
cmp(a, b) == IF a = b THEN "Equal" ELSE IF a > b THEN "Greater" ELSE "Less"

\* ------------------------------------------------------------- TravlNode
TravlNode_new(key, value) ==
    [key |-> key, value |-> value, height |-> 0,
     parent |-> None, left |-> None, right |-> None]

\* self.left().map_or(0, Self::height)
left_height(s, self) ==
    IF s[self].left = None THEN 0 ELSE s[s[self].left].height

\* self.right().map_or(0, Self::height)
right_height(s, self) ==
    IF s[self].right = None THEN 0 ELSE s[s[self].right].height

is_internal(s, self) == s[self].left # None \/ s[self].right # None

has_parent(s, self) == s[self].parent # None

is_alone(s, self) == ~has_parent(s, self) /\ ~is_internal(s, self)

is_leaf(s, self) == s[self].height = 0

balance_factor(s, self, imbalance_factor) ==
    IF saturating_add(right_height(s, self), saturating_add(imbalance_factor, 1))
           = left_height(s, self)
    THEN "TooLeftHeavy"
    ELSE IF saturating_add(left_height(s, self), saturating_add(imbalance_factor, 1))
                = right_height(s, self)
    THEN "TooRightHeavy"
    ELSE IF cmp(left_height(s, self), right_height(s, self)) = "Equal" THEN "Balanced"
    ELSE IF cmp(left_height(s, self), right_height(s, self)) = "Greater" THEN "LeftHeavy"
    ELSE "RightHeavy"

\* ------------------------------------------------- calls and their results
Call(op, self, a, b, pl, pr) ==
    [op |-> op, self |-> self, a |-> a, b |-> b, pl |-> pl, pr |-> pr,
     f |-> "none", g |-> "none"]

\* a call on the map: integer arguments a and b, function arguments f and g
MapCall(op, a, b, f, g) ==
    [op |-> op, self |-> None, a |-> a, b |-> b, pl |-> None, pr |-> None,
     f |-> f, g |-> g]

NoCall == Call("none", None, None, None, None, None)

Ret(kind, bf, a, b) == [kind |-> kind, bf |-> bf, a |-> a, b |-> b]

NoRet == Ret("none", "none", None, None)
RetRef(a) == Ret("ref", "none", a, None)
RetPair(a, b) == Ret("pair", "none", a, b)
RetBF(bf) == Ret("bf", bf, None, None)
RetNum(n) == Ret("num", "none", n, None)
RetBool(b) == Ret("bool", "none", IF b THEN 1 ELSE 0, None)
RetFn(f) == Ret("fn", f, None, None)
Panic == Ret("panic", "none", None, None)

\* --------------------------------------------------- TravlNode: link slots
\* Option::replace on the parent slot
link_parent(s, self, parent) == [s EXCEPT ![self].parent = parent]

\* Option::take on the parent slot
unlink_parent(s, self) == [s EXCEPT ![self].parent = None]

link_left(s, self, left) == [s EXCEPT ![self].left = left]

unlink_left(s, self) == [s EXCEPT ![self].left = None]

link_right(s, self, right) == [s EXCEPT ![self].right = right]

unlink_right(s, self) == [s EXCEPT ![self].right = None]

\* `if let Some(left) = children.0 { old_left = self.left.replace(left); }`
\* and the same for the right slot
link_children(s, self, l, r) ==
    [s EXCEPT ![self].left = IF l # None THEN l ELSE @,
              ![self].right = IF r # None THEN r ELSE @]

\* the pair link_children returns: (old_left, old_right), each None unless
\* the matching argument was Some
link_children_ret(s, self, l, r) ==
    RetPair(IF l # None THEN s[self].left ELSE None,
            IF r # None THEN s[self].right ELSE None)

unlink_children(s, self) == [s EXCEPT ![self].left = None, ![self].right = None]

\* ---------------------------------------------------- TravlMap: creation
\* HashMap::new()
HashMap_new == <<>>

TravlMap_default ==
    [imbalance_factor |-> 0, root_key |-> None, nodes |-> HashMap_new,
     prop_fn |-> "identity", ordering_fn |-> "cmp"]

TravlMap_new == TravlMap_default

new_with_ordering_imbalanced(ordering_fn) ==
    [imbalance_factor |-> 1, root_key |-> None, nodes |-> HashMap_new,
     prop_fn |-> "identity", ordering_fn |-> ordering_fn]

new_with_ordering(ordering_fn) ==
    [imbalance_factor |-> 0, root_key |-> None, nodes |-> HashMap_new,
     prop_fn |-> "identity", ordering_fn |-> ordering_fn]

new_with_prop_getter(prop_fn) ==
    [imbalance_factor |-> 0, root_key |-> None, nodes |-> HashMap_new,
     prop_fn |-> prop_fn, ordering_fn |-> "cmp"]

new_with_prop_getter_and_ordering(prop_fn, ordering_fn) ==
    [imbalance_factor |-> 0, root_key |-> None, nodes |-> HashMap_new,
     prop_fn |-> prop_fn, ordering_fn |-> ordering_fn]

\* ---------------------------------------------------- TravlMap: accessors
contains_key(m, key) == key \in DOMAIN m.nodes

\* Option<&TravlNode>: the node's key, or None
get(m, key) == IF key \in DOMAIN m.nodes THEN key ELSE None

get_mut(m, key) == IF key \in DOMAIN m.nodes THEN key ELSE None

imbalance_factor(m) == m.imbalance_factor

root_key(m) == m.root_key

is_empty(m) == DOMAIN m.nodes = {}

len(m) == Cardinality(DOMAIN m.nodes)

\* ------------------------------------------------------ borrows of nodes
\* lent[n] is the set of nodes whose `&'a Self` has been handed to node n.
\* Such a reference lives as long as n does, whether or not n still stores
\* it, and a node that is borrowed cannot be taken by `&mut self`.
Borrowed(m) == \E n \in DOMAIN store : m \in lent[n]

\* the receiver of a `&mut self` method
Mutable(self) == self \in DOMAIN store /\ ~Borrowed(self)

\* an argument of type `&'a Self` of a method called on self
Lendable(self, other) == other \in DOMAIN store /\ other # self

Lend(self, S) == [lent EXCEPT ![self] = @ \cup (S \ {None})]

\* --------------------------------------------------- node-level operations
New(k, v) ==
    /\ ~Borrowed(k)
    /\ store' = [n \in DOMAIN store \cup {k} |->
                    IF n = k THEN TravlNode_new(k, v) ELSE store[n]]
    /\ lent' = [lent EXCEPT ![k] = {}]
    /\ call' = Call("new", k, v, None, None, None)
    /\ ret' = NoRet
    /\ UNCHANGED map

LinkParent(self, parent) ==
    /\ Mutable(self) /\ Lendable(self, parent)
    /\ store' = link_parent(store, self, parent)
    /\ lent' = Lend(self, {parent})
    /\ call' = Call("link_parent", self, parent, None, store[self].left, store[self].right)
    /\ ret' = RetRef(store[self].parent)
    /\ UNCHANGED map

UnlinkParent(self) ==
    /\ Mutable(self)
    /\ store' = unlink_parent(store, self)
    /\ call' = Call("unlink_parent", self, None, None, store[self].left, store[self].right)
    /\ ret' = RetRef(store[self].parent)
    /\ UNCHANGED <<lent, map>>

LinkLeft(self, left) ==
    /\ Mutable(self) /\ Lendable(self, left)
    /\ store' = link_left(store, self, left)
    /\ lent' = Lend(self, {left})
    /\ call' = Call("link_left", self, left, None, store[self].left, store[self].right)
    /\ ret' = RetRef(store[self].left)
    /\ UNCHANGED map

UnlinkLeft(self) ==
    /\ Mutable(self)
    /\ store' = unlink_left(store, self)
    /\ call' = Call("unlink_left", self, None, None, store[self].left, store[self].right)
    /\ ret' = RetRef(store[self].left)
    /\ UNCHANGED <<lent, map>>

LinkRight(self, right) ==
    /\ Mutable(self) /\ Lendable(self, right)
    /\ store' = link_right(store, self, right)
    /\ lent' = Lend(self, {right})
    /\ call' = Call("link_right", self, right, None, store[self].left, store[self].right)
    /\ ret' = RetRef(store[self].right)
    /\ UNCHANGED map

UnlinkRight(self) ==
    /\ Mutable(self)
    /\ store' = unlink_right(store, self)
    /\ call' = Call("unlink_right", self, None, None, store[self].left, store[self].right)
    /\ ret' = RetRef(store[self].right)
    /\ UNCHANGED <<lent, map>>

LinkChildren(self, l, r) ==
    /\ Mutable(self)
    /\ l = None \/ Lendable(self, l)
    /\ r = None \/ Lendable(self, r)
    /\ store' = link_children(store, self, l, r)
    /\ lent' = Lend(self, {l, r})
    /\ call' = Call("link_children", self, l, r, store[self].left, store[self].right)
    /\ ret' = link_children_ret(store, self, l, r)
    /\ UNCHANGED map

UnlinkChildren(self) ==
    /\ Mutable(self)
    /\ store' = unlink_children(store, self)
    /\ call' = Call("unlink_children", self, None, None, store[self].left, store[self].right)
    /\ ret' = RetPair(store[self].left, store[self].right)
    /\ UNCHANGED <<lent, map>>

InitNode ==
    /\ store = <<>>
    /\ lent = [n \in NodeIds |-> {}]
    /\ map = TravlMap_default
    /\ call = NoCall
    /\ ret = NoRet

NextNode ==
    \/ \E k \in NodeIds, v \in NodeValues : New(k, v)
    \/ \E self, parent \in NodeIds : LinkParent(self, parent)
    \/ \E self \in NodeIds : UnlinkParent(self)
    \/ \E self, left \in NodeIds : LinkLeft(self, left)
    \/ \E self \in NodeIds : UnlinkLeft(self)
    \/ \E self, right \in NodeIds : LinkRight(self, right)
    \/ \E self \in NodeIds : UnlinkRight(self)
    \/ \E self \in NodeIds, l, r \in NodeIds \cup {None} : LinkChildren(self, l, r)
    \/ \E self \in NodeIds : UnlinkChildren(self)

SpecNode == InitNode /\ [][NextNode]_vars

\* ------------------------------------------------- balance_factor as called
\* A node with its children, their heights drawn from Heights; the left
\* child is node 2 and the right child node 3, each present or absent.
InitBalance ==
    \E l \in {None, 2}, r \in {None, 3}, hl \in Heights, hr \in Heights :
        /\ store = [n \in 1..3 |->
                      [key |-> n, value |-> 1,
                       height |-> IF n = 2 THEN hl ELSE IF n = 3 THEN hr ELSE 0,
                       parent |-> IF (n = 2 /\ l = 2) \/ (n = 3 /\ r = 3) THEN 1 ELSE None,
                       left |-> IF n = 1 THEN l ELSE None,
                       right |-> IF n = 1 THEN r ELSE None]]
        /\ lent = [n \in NodeIds |-> IF n = 1 THEN {l, r} \ {None} ELSE {}]
        /\ map = TravlMap_default
        /\ call = NoCall
        /\ ret = NoRet

CallBalanceFactor(self, t) ==
    /\ self \in DOMAIN store
    /\ call' = Call("balance_factor", self, t, None, store[self].left, store[self].right)
    /\ ret' = RetBF(balance_factor(store, self, t))
    /\ UNCHANGED <<store, lent, map>>

NextBalance == \E self \in 1..3, t \in 0..U64_MAX : CallBalanceFactor(self, t)

SpecBalance == InitBalance /\ [][NextBalance]_vars

\* ------------------------------------------------------ map-level operations
\* `todo!()` panics; the panic unwinds through the caller and nothing is
\* called on the map afterwards
Running == ret.kind # "panic"

MapNew ==
    /\ Running
    /\ map' = TravlMap_new
    /\ call' = MapCall("new", None, None, "none", "none")
    /\ ret' = NoRet
    /\ UNCHANGED <<store, lent>>

MapNewWithOrdering(ordering_fn) ==
    /\ Running
    /\ map' = new_with_ordering(ordering_fn)
    /\ call' = MapCall("new_with_ordering", None, None, "none", ordering_fn)
    /\ ret' = NoRet
    /\ UNCHANGED <<store, lent>>

MapNewWithPropGetter(prop_fn) ==
    /\ Running
    /\ map' = new_with_prop_getter(prop_fn)
    /\ call' = MapCall("new_with_prop_getter", None, None, prop_fn, "none")
    /\ ret' = NoRet
    /\ UNCHANGED <<store, lent>>

MapNewWithPropGetterAndOrdering(prop_fn, ordering_fn) ==
    /\ Running
    /\ map' = new_with_prop_getter_and_ordering(prop_fn, ordering_fn)
    /\ call' = MapCall("new_with_prop_getter_and_ordering", None, None, prop_fn, ordering_fn)
    /\ ret' = NoRet
    /\ UNCHANGED <<store, lent>>

ContainsKey(key) ==
    /\ Running
    /\ call' = MapCall("contains_key", key, None, "none", "none")
    /\ ret' = RetBool(contains_key(map, key))
    /\ UNCHANGED <<store, lent, map>>

Get(key) ==
    /\ Running
    /\ call' = MapCall("get", key, None, "none", "none")
    /\ ret' = RetRef(get(map, key))
    /\ UNCHANGED <<store, lent, map>>

GetMut(key) ==
    /\ Running
    /\ call' = MapCall("get_mut", key, None, "none", "none")
    /\ ret' = RetRef(get_mut(map, key))
    /\ UNCHANGED <<store, lent, map>>

\* the body of find is `todo!()`
Find(val, search_type) ==
    /\ Running
    /\ call' = MapCall("find", val, None, search_type, "none")
    /\ ret' = Panic
    /\ UNCHANGED <<store, lent, map>>

ImbalanceFactor ==
    /\ Running
    /\ call' = MapCall("imbalance_factor", None, None, "none", "none")
    /\ ret' = RetNum(imbalance_factor(map))
    /\ UNCHANGED <<store, lent, map>>

RootKey ==
    /\ Running
    /\ call' = MapCall("root_key", None, None, "none", "none")
    /\ ret' = RetRef(root_key(map))
    /\ UNCHANGED <<store, lent, map>>

PropFn ==
    /\ Running
    /\ call' = MapCall("prop_fn", None, None, "none", "none")
    /\ ret' = RetFn(map.prop_fn)
    /\ UNCHANGED <<store, lent, map>>

OrderingFn ==
    /\ Running
    /\ call' = MapCall("ordering_fn", None, None, "none", "none")
    /\ ret' = RetFn(map.ordering_fn)
    /\ UNCHANGED <<store, lent, map>>

IsEmpty ==
    /\ Running
    /\ call' = MapCall("is_empty", None, None, "none", "none")
    /\ ret' = RetBool(is_empty(map))
    /\ UNCHANGED <<store, lent, map>>

MapLen ==
    /\ Running
    /\ call' = MapCall("len", None, None, "none", "none")
    /\ ret' = RetNum(len(map))
    /\ UNCHANGED <<store, lent, map>>

\* `self.prop_fn = prop_fn; todo!("Trigger reordering")`
ReplacePropFn(prop_fn) ==
    /\ Running
    /\ map' = [map EXCEPT !.prop_fn = prop_fn]
    /\ call' = MapCall("replace_prop_fn", None, None, prop_fn, "none")
    /\ ret' = Panic
    /\ UNCHANGED <<store, lent>>

\* `self.ordering_fn = ordering_fn; todo!("Trigger reordering")`
ReplaceOrderingFn(ordering_fn) ==
    /\ Running
    /\ map' = [map EXCEPT !.ordering_fn = ordering_fn]
    /\ call' = MapCall("replace_ordering_fn", None, None, "none", ordering_fn)
    /\ ret' = Panic
    /\ UNCHANGED <<store, lent>>

InitMap ==
    /\ store = <<>>
    /\ lent = [n \in NodeIds |-> {}]
    /\ map = TravlMap_default
    /\ call = MapCall("default", None, None, "none", "none")
    /\ ret = NoRet

NextMap ==
    \/ MapNew
    \/ \E o \in OrdFns : MapNewWithOrdering(o)
    \/ \E p \in PropFns : MapNewWithPropGetter(p)
    \/ \E p \in PropFns, o \in OrdFns : MapNewWithPropGetterAndOrdering(p, o)
    \/ \E k \in Keys : ContainsKey(k)
    \/ \E k \in Keys : Get(k)
    \/ \E k \in Keys : GetMut(k)
    \/ \E v \in Values, st \in SearchType : Find(v, st)
    \/ ImbalanceFactor
    \/ RootKey
    \/ PropFn
    \/ OrderingFn
    \/ IsEmpty
    \/ MapLen
    \/ \E p \in PropFns : ReplacePropFn(p)
    \/ \E o \in OrdFns : ReplaceOrderingFn(o)

SpecMap == InitMap /\ [][NextMap]_vars

\* -------------------------------------------------------- TravlMap: insert
\* the property getter applied to a value
ApplyProp(f, v) == IF f = "half" THEN v \div 2 ELSE v

\* the ordering function applied to two desired values
ApplyOrd(g, a, b) == IF g = "reverse" THEN cmp(b, a) ELSE cmp(a, b)

\* height(n) = 1 + max(height(left), height(right)) with a child, else 0
update_height(s, n) ==
    [s EXCEPT ![n].height =
        IF is_internal(s, n)
        THEN 1 + (IF left_height(s, n) > right_height(s, n)
                  THEN left_height(s, n) ELSE right_height(s, n))
        ELSE 0]

\* the slot of parent p that held child old now holds child new
replace_child(s, p, old, new) ==
    IF p = None THEN s
    ELSE IF s[p].left = old THEN link_left(s, p, new)
    ELSE link_right(s, p, new)

\* AVLRotation::Right at n: n's left child takes n's place
rotate_right(s, n) ==
    LET l == s[n].left
        lr == s[l].right
        p == s[n].parent
        s1 == [s EXCEPT ![n].left = lr, ![n].parent = l,
                        ![l].right = n, ![l].parent = p]
        s2 == IF lr # None THEN link_parent(s1, lr, n) ELSE s1
        s3 == replace_child(s2, p, n, l)
    IN update_height(update_height(s3, n), l)

\* AVLRotation::Left at n: n's right child takes n's place
rotate_left(s, n) ==
    LET r == s[n].right
        rl == s[r].left
        p == s[n].parent
        s1 == [s EXCEPT ![n].right = rl, ![n].parent = r,
                        ![r].left = n, ![r].parent = p]
        s2 == IF rl # None THEN link_parent(s1, rl, n) ELSE s1
        s3 == replace_child(s2, p, n, r)
    IN update_height(update_height(s3, n), r)

\* the rotation chosen for a node classified too heavy, from the balance of
\* its heavier child, applied
rotate(s, n, bf, t) ==
    IF bf = "TooLeftHeavy"
    THEN IF balance_factor(s, s[n].left, t) \in {"RightHeavy", "TooRightHeavy"}
         THEN rotate_right(rotate_left(s, s[n].left), n)
         ELSE rotate_right(s, n)
    ELSE IF balance_factor(s, s[n].right, t) \in {"LeftHeavy", "TooLeftHeavy"}
         THEN rotate_left(rotate_right(s, s[n].right), n)
         ELSE rotate_left(s, n)

RECURSIVE rebalance(_, _, _)
\* bottom-up from n: refresh the height, classify, rotate at most once, and
\* go on with the parent of the subtree's root
rebalance(s, n, t) ==
    IF n = None THEN s
    ELSE LET s1 == update_height(s, n)
             bf == balance_factor(s1, n, t)
         IN IF bf \in {"TooLeftHeavy", "TooRightHeavy"}
            THEN LET s2 == rotate(s1, n, bf, t)
                 IN rebalance(s2, s2[s2[n].parent].parent, t)
            ELSE rebalance(s1, s1[n].parent, t)

RECURSIVE insertion_point(_, _, _)
\* the walk from cur by ordering_fn on the desired values: <<parent, side>>
insertion_point(m, cur, v) ==
    LET side == IF ApplyOrd(m.ordering_fn, ApplyProp(m.prop_fn, v),
                            ApplyProp(m.prop_fn, m.nodes[cur].value)) = "Less"
                THEN "left" ELSE "right"
    IN IF m.nodes[cur][side] = None THEN <<cur, side>>
       ELSE insertion_point(m, m.nodes[cur][side], v)

\* attach (key, value) as a new leaf, then rebalance its ancestors
insert(m, key, value) ==
    IF m.root_key = None
    THEN [m EXCEPT !.nodes = [k \in {key} |-> TravlNode_new(key, value)],
                   !.root_key = key]
    ELSE LET at == insertion_point(m, m.root_key, value)
             s0 == [k \in DOMAIN m.nodes \cup {key} |->
                       IF k = key THEN link_parent([x \in {key} |-> TravlNode_new(key, value)],
                                                   key, at[1])[key]
                       ELSE m.nodes[k]]
             s1 == IF at[2] = "left" THEN link_left(s0, at[1], key)
                                     ELSE link_right(s0, at[1], key)
             s2 == rebalance(s1, at[1], m.imbalance_factor)
         IN [m EXCEPT !.nodes = s2,
                      !.root_key = CHOOSE k \in DOMAIN s2 : s2[k].parent = None]

Insert(key, value) ==
    /\ call' = MapCall("insert", key, value, "none", "none")
    /\ IF contains_key(map, key)
       THEN /\ ret' = Ret("DuplicateKey", "none", None, None)
            /\ map' = map
       ELSE /\ ret' = Ret("ok", "none", None, None)
            /\ map' = insert(map, key, value)
    /\ UNCHANGED <<store, lent>>

InitInsert ==
    /\ store = <<>>
    /\ lent = [n \in NodeIds |-> {}]
    /\ \E p \in PropFns, o \in OrdFns : map = new_with_prop_getter_and_ordering(p, o)
    /\ call = MapCall("new_with_prop_getter_and_ordering", None, None, map.prop_fn, map.ordering_fn)
    /\ ret = NoRet

NextInsert == \E k \in Keys, v \in Values : Insert(k, v)

SpecInsert == InitInsert /\ [][NextInsert]_vars

\* ------------------------------------------------------------- properties
\* the height the statements give a child slot: 0 when the child is absent
ChildHeight(ref) == IF ref = None THEN 0 ELSE store[ref].height

CalledLeftHeight == ChildHeight(store[call.self].left)
CalledRightHeight == ChildHeight(store[call.self].right)

Abs(x) == IF x < 0 THEN -x ELSE x

Max(a, b) == IF a > b THEN a ELSE b

TooHeavy == {"TooLeftHeavy", "TooRightHeavy"}

C2_ToleratesUpToTPlusOne ==
    (call.op = "balance_factor"
       /\ Abs(CalledLeftHeight - CalledRightHeight) <= call.a + 1)
    => ret.bf \notin TooHeavy

\* C6: a node whose child heights differ by more than t + 1 is classified
\* TooLeftHeavy or TooRightHeavy, and LeftHeavy and RightHeavy are returned
\* only when the difference is within t + 1.
C6_BeyondThresholdIsTooHeavy ==
    call.op = "balance_factor" =>
        /\ Abs(CalledLeftHeight - CalledRightHeight) > call.a + 1 => ret.bf \in TooHeavy
        /\ ret.bf \in {"LeftHeavy", "RightHeavy"}
              => Abs(CalledLeftHeight - CalledRightHeight) <= call.a + 1

\* C4: after any sequence of the link and unlink operations, whenever
\* p.left = n or p.right = n, then n.parent = p.
C4_LinksMutuallyConsistent ==
    \A p \in DOMAIN store : \A n \in DOMAIN store :
        (store[p].left = n \/ store[p].right = n) => store[n].parent = p

\* C5: in every state reached by creating nodes and linking or unlinking
\* them, height(n) = 1 + max(height(left), height(right)) when n has a
\* child, and height(n) = 0 when it has none.
C5_HeightFromChildren ==
    \A n \in DOMAIN store :
        store[n].height =
            IF store[n].left # None \/ store[n].right # None
            THEN 1 + Max(ChildHeight(store[n].left), ChildHeight(store[n].right))
            ELSE 0

\* C10: link_children((l, r)) leaves the node with left = l and right = r,
\* l or r absent included, and returns the node's previous (left, right).
C10_LinkChildrenReplacesBoth ==
    call.op = "link_children" =>
        /\ store[call.self].left = call.a
        /\ store[call.self].right = call.b
        /\ ret = RetPair(call.pl, call.pr)

MapPairs(m) == {<<k, m.nodes[k].value>> : k \in DOMAIN m.nodes}

\* C7: replace_prop_fn and replace_ordering_fn, on any map, the empty map
\* included, install the new function and return normally, and the map then
\* holds the same (key, value) pairs and the same len() as before.
C7_ReplaceFnCompletes ==
    [][call'.op \in {"replace_prop_fn", "replace_ordering_fn"} =>
          /\ ret'.kind # "panic"
          /\ (call'.op = "replace_prop_fn" => map'.prop_fn = call'.f)
          /\ (call'.op = "replace_ordering_fn" => map'.ordering_fn = call'.g)
          /\ MapPairs(map') = MapPairs(map)
          /\ len(map') = len(map)]_vars

\* C8: find is recoverable on a miss: for every search type, when no node
\* satisfies the query (as on an empty map), find returns an empty result
\* instead of aborting, and leaves the map unchanged.
C8_FindMissReturnsEmpty ==
    [][(call'.op = "find" /\ is_empty(map)) =>
          /\ ret' = RetRef(None)
          /\ map' = map]_vars

Constructors ==
    {"default", "new", "new_with_ordering", "new_with_prop_getter",
     "new_with_prop_getter_and_ordering"}

\* C9: each of the four construction variants returns a map with
\* imbalance_factor() = 0, an empty node index (len() = 0, is_empty()), and
\* no root_key().
C9_ConstructedEmpty ==
    call.op \in Constructors =>
        /\ imbalance_factor(map) = 0
        /\ len(map) = 0
        /\ is_empty(map)
        /\ root_key(map) = None

\* C9 witness: a map has been built by new_with_ordering with a custom
\* ordering function.
C9_Witness ==
    /\ call.op = "new_with_ordering"
    /\ map.ordering_fn = "reverse"
    /\ map.prop_fn = "identity"

\* C3: for all sequences of inserts with unique keys into a map with
\* imbalance_factor 0, after each insert no node of the tree is classified
\* TooLeftHeavy or TooRightHeavy.
C3_NeverTooHeavyAfterInsert ==
    (call.op = "insert" /\ map.imbalance_factor = 0) =>
        \A n \in DOMAIN map.nodes :
            balance_factor(map.nodes, n, map.imbalance_factor) \notin TooHeavy
====
